---- MODULE Spec2Model ----
(***************************************************************************)
(* A model of crewai-autocrew.py: the command line driver (main), the CSV  *)
(* parser (parse_csv_data), the script emitter (define_agent, define_task, *)
(* write_crewai_script) and the ranking request (rank_crews).              *)
(*                                                                         *)
(* Text.  A Python str is a sequence of atoms.  An atom is one character   *)
(* ("a", " ", "-", a quote) or, where the program only ever tests a word   *)
(* as a whole, that word ("ranking", ".csv", "crewai-autocrew-").  A CSV   *)
(* text is a sequence of lines and a line a sequence of fields, each field *)
(* a str as it stands in the text, quotes included.                        *)
(***************************************************************************)
EXTENDS Integers, Sequences, FiniteSets, TLC

VARIABLES
    pc,               \* the position of main
    args,             \* argparse's namespace (main, line 239)
    overall_goal,     \* main's overall_goal
    num_scripts,      \* main's num_scripts
    i,                \* the loop variable of main's for loop
    response,         \* the model's reply of the current iteration
    file_path,        \* the CSV path of the current iteration
    agents_data,      \* the records parsed in the current iteration
    csv_file_paths,   \* main's / rank_crews' csv_file_paths
    fs,               \* the files of the working directory: path -> content
    log,              \* the external calls made so far, in order
    prompts,          \* the prompts handed to ollama.invoke, in order
    ranked,           \* what rank_crews returned: concatenation, paths, reply
    exc               \* the exception raised, or NoExc

vars == <<pc, args, overall_goal, num_scripts, i, response, file_path,
          agents_data, csv_file_paths, fs, log, prompts, ranked, exc>>

(***************************************************************************)
(* Bounds of the model.                                                    *)
(***************************************************************************)
MaxRows == 2          \* data rows of a CSV text drawn for the parser
MaxAgents == 2        \* records handed to the script emitter
MaxTextLen == 3       \* atoms of a field handed to the escaping code
MaxMultiple == 2      \* the largest value given to --multiple

(***************************************************************************)
(* Characters and Python's str methods.                                    *)
(***************************************************************************)
DQ == "\""
SQ == "'"
BS == "\\"
None == "None"
NoExc == "NoExc"

Str(a) == <<a>>

RECURSIVE Replace(_, _, _)
\* str.replace(old, new) for a one-atom old
Replace(s, old, new) ==
    IF s = <<>> THEN <<>>
    ELSE (IF Head(s) = old THEN new ELSE <<Head(s)>>) \o Replace(Tail(s), old, new)

RECURSIVE LStrip(_, _)
LStrip(s, chars) ==
    IF s # <<>> /\ Head(s) \in chars THEN LStrip(Tail(s), chars) ELSE s

RECURSIVE RStrip(_, _)
RStrip(s, chars) ==
    IF s # <<>> /\ s[Len(s)] \in chars THEN RStrip(SubSeq(s, 1, Len(s) - 1), chars) ELSE s

\* str.strip(chars)
Strip(s, chars) == RStrip(LStrip(s, chars), chars)

Whitespace == {" ", "\n"}

\* str.lower(), atom by atom
LowerAtom(a) ==
    CASE a = "Role" -> "role"
      [] a = "ROLE" -> "role"
      [] a = "Goal" -> "goal"
      [] a = "Ranking" -> "ranking"
      [] a = "G" -> "g"
      [] OTHER -> a

Lower(s) == [k \in 1..Len(s) |-> LowerAtom(s[k])]

\* sub in s
Contains(s, sub) ==
    \E k \in 0..(Len(s) - Len(sub)) : SubSeq(s, k + 1, k + Len(sub)) = sub

StartsWith(s, p) == Len(s) >= Len(p) /\ SubSeq(s, 1, Len(p)) = p

EndsWith(s, p) == Len(s) >= Len(p) /\ SubSeq(s, Len(s) - Len(p) + 1, Len(s)) = p

\* s[:n]
Slice(s, n) == SubSeq(s, 1, IF Len(s) < n THEN Len(s) ELSE n)

\* a dict: d[k] = v
Put(d, k, v) == [x \in (DOMAIN d) \cup {k} |-> IF x = k THEN v ELSE d[x]]

EmptyDict == [x \in {} |-> <<>>]

(***************************************************************************)
(* csv.reader (the standard library): a blank line is a row of no fields;  *)
(* a field wrapped in double quotes loses the wrapping pair and has each   *)
(* doubled quote inside it read as one quote character.                    *)
(***************************************************************************)
RECURSIVE Undouble(_)
Undouble(s) ==
    IF s = <<>> THEN <<>>
    ELSE IF Len(s) >= 2 /\ s[1] = DQ /\ s[2] = DQ THEN <<DQ>> \o Undouble(SubSeq(s, 3, Len(s)))
    ELSE <<Head(s)>> \o Undouble(Tail(s))

CsvField(f) ==
    IF Len(f) >= 2 /\ f[1] = DQ /\ f[Len(f)] = DQ
    THEN Undouble(SubSeq(f, 2, Len(f) - 1))
    ELSE f

BlankLine == << <<>> >>

CsvRow(line) ==
    IF line = BlankLine THEN <<>> ELSE [k \in 1..Len(line) |-> CsvField(line[k])]

CsvReader(text) == [k \in 1..Len(text) |-> CsvRow(text[k])]

(***************************************************************************)
(* parse_csv_data                                                          *)
(***************************************************************************)
ExcRole == "ValueError: Role component missing in CSV data"
ExcIndex == "IndexError: list index out of range"

header == <<"filename", "role", "goal", "backstory", "assigned_task", "allow_delegation">>

\* header_mapping.get(h.lower())
HeaderMappingGet(h) ==
    IF \E k \in 1..Len(header) : Lower(h) = Str(header[k])
    THEN (CHOOSE c \in {header[k] : k \in 1..Len(header)} : Lower(h) = Str(c))
    ELSE None

HeaderIndices(header_line) ==
    [k \in 1..Len(header_line) |-> HeaderMappingGet(header_line[k])]

RECURSIVE AssignFields(_, _, _, _)
\* the loop over enumerate(line), from its k-th field on
AssignFields(line, header_indices, k, agent_data) ==
    IF k > Len(line) THEN [status |-> "ok", agent_data |-> agent_data]
    ELSE IF k > Len(header_indices) THEN [status |-> ExcIndex, agent_data |-> agent_data]
    ELSE LET header_name == header_indices[k]
         IN  AssignFields(line, header_indices, k + 1,
                 IF header_name # None
                 THEN Put(agent_data, header_name, Strip(line[k], {DQ}))
                 ELSE agent_data)

\* the check without its test for the empty string
RoleMissing_NoEmptyCheck(agent_data) == "role" \notin DOMAIN agent_data

\* 'role' not in agent_data or not agent_data['role']
RoleMissing(agent_data) ==
    \/ "role" \notin DOMAIN agent_data
    \/ agent_data["role"] = <<>>

\* the loop over every line, the header row included
DataLines_WithHeader(lines) == lines

\* lines[1:]
DataLines(lines) == Tail(lines)

RECURSIVE ParseLines(_, _, _, _)
\* the loop over lines[1:], with the records appended so far
ParseLines(rest, header_indices, filename, acc) ==
    IF rest = <<>> THEN [status |-> "ok", records |-> acc]
    ELSE LET r == AssignFields(Head(rest), header_indices, 1, EmptyDict)
         IN  IF r.status # "ok" THEN [status |-> r.status, records |-> <<>>]
             ELSE IF RoleMissing(r.agent_data) THEN [status |-> ExcRole, records |-> <<>>]
             ELSE ParseLines(Tail(rest), header_indices, filename,
                      Append(acc, Put(r.agent_data, "filename", filename)))

parse_csv_data(text, filename) ==
    LET lines == CsvReader(text)
    IN  IF lines = <<>> THEN [status |-> ExcIndex, records |-> <<>>]
        ELSE ParseLines(DataLines(lines), HeaderIndices(lines[1]), filename, <<>>)

(***************************************************************************)
(* define_agent, get_task_var_name, define_task, write_crewai_script       *)
(***************************************************************************)
ExcKey == "KeyError"
ExcOS == "OSError"

\* define_agent's role_var (line 69)
RoleVar(role) == Replace(Replace(Replace(role, " ", <<"_">>), "-", <<"_">>), ".", <<"_">>)

\* the escaping without its second replace
EscapeQuotes_DoubleOnly(s) == Replace(s, DQ, <<BS, DQ>>)

\* define_agent's role_value and backstory (lines 70-71)
EscapeQuotes(s) == Replace(Replace(s, DQ, <<BS, DQ>>), SQ, <<BS, SQ>>)

\* define_task's task_description (line 94)
TaskDescription(s) == Replace(Strip(s, Whitespace), DQ, <<BS, DQ>>)

\* define_agent's f-string for the goal (line 76)
GoalLiteral(s) == s

True == <<"T", "r", "u", "e">>
False == <<"F", "a", "l", "s", "e">>

AgentKeys == {"role", "backstory", "allow_delegation", "goal"}

define_agent(agent, search_tool) ==
    IF ~(AgentKeys \subseteq DOMAIN agent) THEN [status |-> ExcKey, text |-> <<>>]
    ELSE [status |-> "ok",
          text |-> [var |-> RoleVar(agent["role"]),
                    role |-> EscapeQuotes(agent["role"]),
                    goal |-> GoalLiteral(agent["goal"]),
                    backstory |-> EscapeQuotes(agent["backstory"]),
                    allow_delegation |-> IF agent["allow_delegation"] = True THEN True ELSE False,
                    tools |-> search_tool]]

get_task_var_name(role) ==
    <<"task_">> \o Replace(Replace(Replace(role, " ", <<"_">>), "-", <<"_">>), ".", <<"_">>)

\* the reference with only the spaces replaced
TaskAgentRef_SpacesOnly(role) == Replace(role, " ", <<"_">>)

\* define_task's agent= reference (line 99)
TaskAgentRef(role) == Replace(Replace(Replace(role, " ", <<"_">>), "-", <<"_">>), ".", <<"_">>)

define_task(agent) ==
    IF "assigned_task" \notin DOMAIN agent THEN [status |-> ExcKey, text |-> <<>>]
    ELSE [status |-> "ok",
          text |-> [var |-> get_task_var_name(agent["role"]),
                    description |-> TaskDescription(agent["assigned_task"]),
                    agent |-> TaskAgentRef(agent["role"])]]

\* write_crewai_script's crew_agents (line 106), one name per agent
CrewAgents(data) ==
    [k \in 1..Len(data) |->
        Replace(Replace(Replace(data[k]["role"], " ", <<"_">>), "-", <<"_">>), ".", <<"_">>)]

\* main's crew_tasks (line 294), one name per agent
CrewTasks(data) ==
    [k \in 1..Len(data) |->
        <<"task_">> \o Replace(Replace(Replace(data[k]["role"], " ", <<"_">>), "-", <<"_">>), ".", <<"_">>)]

RECURSIVE WriteAgents(_, _)
\* the first loop of write_crewai_script: the definitions written before one fails
WriteAgents(data, acc) ==
    IF data = <<>> THEN [status |-> "ok", written |-> acc]
    ELSE LET d == define_agent(Head(data), Str("search_tool"))
         IN  IF d.status # "ok" THEN [status |-> d.status, written |-> acc]
             ELSE WriteAgents(Tail(data), Append(acc, d.text))

RECURSIVE WriteTasks(_, _)
WriteTasks(data, acc) ==
    IF data = <<>> THEN [status |-> "ok", written |-> acc]
    ELSE LET d == define_task(Head(data))
         IN  IF d.status # "ok" THEN [status |-> d.status, written |-> acc]
             ELSE WriteTasks(Tail(data), Append(acc, d.text))

\* The file's content once open() has succeeded: what was written when the
\* function returned or raised.  crew holds the Crew(...) call, if written.
write_crewai_script(data, crew_tasks) ==
    LET crew_agents == CrewAgents(data)
        a == WriteAgents(data, <<>>)
        t == WriteTasks(data, <<>>)
    IN  IF a.status # "ok"
        THEN [status |-> a.status, agents |-> a.written, tasks |-> <<>>, crew |-> <<>>]
        ELSE IF t.status # "ok"
        THEN [status |-> t.status, agents |-> a.written, tasks |-> t.written, crew |-> <<>>]
        ELSE [status |-> "ok", agents |-> a.written, tasks |-> t.written,
              crew |-> <<[agents |-> crew_agents, tasks |-> crew_tasks]>>]

(***************************************************************************)
(* rank_crews                                                              *)
(***************************************************************************)
DirAtoms == {"/cwd/"}

RECURSIVE Basename(_)
\* os.path.basename
Basename(path) ==
    IF \E k \in 1..Len(path) : path[k] \in DirAtoms THEN Basename(Tail(path)) ELSE path

RECURSIVE StripLeadingBlank(_)
StripLeadingBlank(text) ==
    IF text # <<>> /\ Head(text) = BlankLine THEN StripLeadingBlank(Tail(text)) ELSE text

RECURSIVE StripTrailingBlank(_)
StripTrailingBlank(text) ==
    IF text # <<>> /\ text[Len(text)] = BlankLine
    THEN StripTrailingBlank(SubSeq(text, 1, Len(text) - 1))
    ELSE text

\* csv_data.strip().split('\n'): the lines of the text between its first and
\* last non-blank line; the empty text splits into one empty line
StripSplit(text) ==
    LET t == StripTrailingBlank(StripLeadingBlank(text))
    IN  IF t = <<>> THEN <<BlankLine>> ELSE t

RankingHeader == [k \in 1..Len(header) |-> Str(header[k])]

\* "ranking" in file_path.lower()
Skipped(path) == Contains(Lower(path), Str("ranking"))

\* the rows of one file that get the filename prefixed (line 182)
RowsOf(text) == StripSplit(text)

\* csv_data_with_filename (line 182): each row with the filename as a new first field
WithFilename(path, text) ==
    LET rows == RowsOf(text)
    IN  [k \in 1..Len(rows) |-> <<Basename(path)>> \o rows[k]]

RECURSIVE Concatenate(_, _)
\* the loop of lines 170-184 over the paths still to visit
Concatenate(paths, files) ==
    IF paths = <<>> THEN <<>>
    ELSE (IF Skipped(Head(paths)) THEN <<>> ELSE WithFilename(Head(paths), files[Head(paths)]))
         \o Concatenate(Tail(paths), files)

\* concatenated_csv_data, as lines
ConcatenatedCsvData(paths, files) == <<RankingHeader>> \o Concatenate(paths, files)

Range(s) == {s[k] : k \in 1..Len(s)}

\* list(set(csv_file_paths)): the distinct paths in any order
Orders(paths) ==
    {o \in [1..Cardinality(Range(paths)) -> Range(paths)] : Range(o) = Range(paths)}

(***************************************************************************)
(* File names (save_csv_output, main)                                      *)
(***************************************************************************)
CsvSlugLen == 40
ScriptSlugLen == 50

Prefix == Str("crewai-autocrew-")
Cwd == Str("/cwd/")

\* overall_goal[:n].replace(" ", "-")
Slug(goal, n) == Replace(Slice(goal, n), " ", <<"-">>)

\* os.path.join(os.getcwd(), file_name)
Join(dir, file_name) == dir \o file_name

\* save_csv_output's file_path (lines 37-38)
CsvPath(timestamp, goal, index) ==
    Join(Cwd, Prefix \o <<timestamp, "-">> \o Slug(goal, CsvSlugLen)
              \o <<"-", ToString(index), ".csv">>)

\* main's crewai_script_path (lines 290-292)
ScriptPath(timestamp, goal, index) ==
    Join(Cwd, Prefix \o <<timestamp, "-">> \o Slug(goal, ScriptSlugLen)
              \o <<"-", ToString(index), ".py">>)

\* main's ranked_crews_file_path (lines 310-312)
RankingPath(timestamp, goal) ==
    Join(Cwd, Prefix \o <<timestamp, "-">> \o Slug(goal, ScriptSlugLen)
              \o <<"-", "ranking", ".csv">>)

(***************************************************************************)
(* The environment: what the command line, the user, the model, the clock  *)
(* and the working directory can supply.                                   *)
(***************************************************************************)
Quoted(s) == <<DQ>> \o s \o <<DQ>>

HeaderLine == [k \in 1..5 |-> Str(header[k + 1])]

Row1 == <<Quoted(<<"R">>), Quoted(<<"g", "o">>), Quoted(<<"b">>), Quoted(<<"t">>), Quoted(True)>>
Row2 == <<Quoted(<<"A", " ", "B">>), Quoted(<<"g", "o">>), Quoted(<<"b", SQ>>), Quoted(<<"t">>), Quoted(False)>>
RowNoRole == <<Quoted(<<>>), Quoted(<<"g", "o">>), Quoted(<<"b">>), Quoted(<<"t">>), Quoted(True)>>
RowShort == <<Quoted(<<"R">>), Quoted(<<"g", "o">>)>>
RowLong == <<Str("R"), <<"g", "o">>, Str("b"), Str("c"), Str("t"), True>>

\* the replies of the model to get_agent_data's prompt; <<>> is the empty reply
Responses ==
    { <<>>,
      <<HeaderLine>>,
      <<HeaderLine, Row1, Row2>>,
      <<HeaderLine, Row1, RowNoRole>>,
      <<HeaderLine, RowShort>>,
      <<HeaderLine, RowLong>> }

Replies == {Str("ranking reply")}

Timestamps == {"20240101-000000", "20240101-000001"}

Goals == {<<>>, Str("g"), <<"Ranking", " ", "g">>}

Some(x) == [some |-> TRUE, v |-> x]

Multiples == {[some |-> FALSE, v |-> 0]} \cup {Some(n) : n \in (-1)..MaxMultiple}

GoalArgs == {[some |-> FALSE, v |-> <<>>]} \cup {Some(g) : g \in Goals}

Args == [overall_goal : GoalArgs, auto_run : BOOLEAN, multiple : Multiples, ranking : BOOLEAN]

ExistingCsv1 == Prefix \o <<"20231231-235959", "-", "g", "-", "1", ".csv">>
ExistingCsv2 == Prefix \o <<"20231231-235959", "-", "g", "-", "2", ".csv">>
ExistingRanking == Prefix \o <<"20231231-235959", "-", "g", "-", "ranking", ".csv">>
ExistingScript == Prefix \o <<"20231231-235959", "-", "g", "-", "1", ".py">>
ExistingOther == <<"notes", "-", "g", ".csv">>

ExistingFiles == {ExistingCsv1, ExistingCsv2, ExistingRanking, ExistingScript, ExistingOther}

ExistingContent(f) ==
    CASE f = ExistingCsv1 -> <<HeaderLine, Row1>>
      [] f = ExistingCsv2 -> <<HeaderLine, Row1, Row2, BlankLine>>
      [] f = ExistingRanking -> << <<Str("CSV File"), Str("Ranking"), Str("Critique")>> >>
      [] OTHER -> <<>>

(***************************************************************************)
(* main                                                                    *)
(***************************************************************************)
ExcConfig == "ValueError: The -m and -a command line parameters must not be used simultaneously"
ExcNoResponse == "ValueError: No response from Ollama"
ExcNoData == "ValueError: No agent data parsed"
ExcModel == "ConnectionError"

\* the truth value of an optional int (None and 0 are false)
Truthy(opt) == opt.some /\ opt.v # 0

\* the truth value of an optional str (None and '' are false)
TruthyStr(opt) == opt.some /\ opt.v # <<>>

\* lines 226-228: the version request, whose failure is swallowed
CheckLatestVersion ==
    /\ pc = "check_latest_version"
    /\ \E outcome \in {<<"print:new_version">>, <<>>, <<"print:version_error">>} :
           log' = log \o <<"requests.get">> \o outcome
    /\ pc' = "check_flags"
    /\ UNCHANGED <<args, overall_goal, num_scripts, i, response, file_path, agents_data,
                   csv_file_paths, fs, prompts, ranked, exc>>

\* args.multiple and args.auto_run (line 241)
FlagsConflict == Truthy(args.multiple) /\ args.auto_run

\* the flag check placed after the model session is opened
CheckFlags_AfterSession ==
    /\ pc = "check_flags"
    /\ IF FlagsConflict
       THEN pc' = "raised" /\ exc' = ExcConfig /\ log' = Append(log, "Ollama()")
       ELSE pc' = (IF args.ranking THEN "ranking" ELSE "goal") /\ exc' = exc /\ log' = log
    /\ UNCHANGED <<args, overall_goal, num_scripts, i, response, file_path, agents_data,
                   csv_file_paths, fs, prompts, ranked>>

\* lines 241-244
CheckFlags ==
    /\ pc = "check_flags"
    /\ IF FlagsConflict
       THEN pc' = "raised" /\ exc' = ExcConfig
       ELSE pc' = (IF args.ranking THEN "ranking" ELSE "goal") /\ exc' = exc
    /\ UNCHANGED <<args, overall_goal, num_scripts, i, response, file_path, agents_data,
                   csv_file_paths, fs, log, prompts, ranked>>

\* the filter without its test of the goal
Discovered_AnyGoal(file, goal) ==
    /\ StartsWith(file, Prefix)
    /\ EndsWith(file, Str(".csv"))

\* the discovery filter of line 250
Discovered(file, goal) ==
    /\ StartsWith(file, Prefix)
    /\ EndsWith(file, Str(".csv"))
    /\ Contains(file, goal)

\* rank_crews up to its return or the exception of ollama.invoke
RankCrews(paths, goal, next) ==
    \E o \in Orders(paths), reply \in Replies, up \in BOOLEAN :
        LET data == ConcatenatedCsvData(o, fs)
        IN  /\ prompts' = Append(prompts, [kind |-> "rank_crews", goal |-> goal, data |-> data])
            /\ IF up
               THEN /\ ranked' = <<[paths |-> o, concatenated |-> data, reply |-> reply]>>
                    /\ log' = log \o <<"Ollama()", "invoke">>
                    /\ exc' = exc
                    /\ pc' = next
               ELSE /\ ranked' = ranked
                    /\ log' = log \o <<"Ollama()", "invoke">>
                    /\ exc' = ExcModel
                    /\ pc' = "except"

\* lines 245-253: the goal, the directory listing and the empty case
RankingDiscover ==
    /\ pc = "ranking"
    /\ \E g \in (IF TruthyStr(args.overall_goal) THEN {args.overall_goal.v} ELSE Goals),
          dir \in SUBSET ExistingFiles :
          LET found == {f \in dir : Discovered(f, g)}
              asked == IF TruthyStr(args.overall_goal) THEN <<>> ELSE <<"input">>
          IN  /\ overall_goal' = g
              /\ fs' = [f \in dir |-> ExistingContent(f)]
              /\ \E o \in [1..Cardinality(found) -> found] :
                     /\ Range(o) = found
                     /\ csv_file_paths' = o
              /\ IF found = {}
                 THEN /\ log' = log \o asked \o <<"listdir", "print:no_csv">>
                      /\ pc' = "done"
                 ELSE /\ log' = log \o asked \o <<"listdir">>
                      /\ pc' = "rank_only"
    /\ UNCHANGED <<args, num_scripts, i, response, file_path, agents_data, prompts, ranked, exc>>

\* lines 255-262
RankOnly ==
    /\ pc = "rank_only"
    /\ RankCrews(csv_file_paths, overall_goal, "done")
    /\ UNCHANGED <<args, overall_goal, num_scripts, i, response, file_path, agents_data,
                   csv_file_paths, fs>>

\* lines 264-276
GoalAndCount ==
    /\ pc = "goal"
    /\ \E g \in (IF args.overall_goal.some THEN {args.overall_goal.v} ELSE Goals) :
           /\ overall_goal' = g
           /\ log' = log \o (IF args.overall_goal.some THEN <<>> ELSE <<"input">>)
    /\ num_scripts' = (IF Truthy(args.multiple) THEN args.multiple.v ELSE 1)
    /\ csv_file_paths' = <<>>
    /\ i' = 0
    /\ pc' = "loop"
    /\ UNCHANGED <<args, response, file_path, agents_data, fs, prompts, ranked, exc>>

\* line 277 and, once the loop is over, line 306
LoopHead ==
    /\ pc = "loop"
    /\ pc' = (IF i < num_scripts THEN "get_agent_data"
              ELSE IF num_scripts > 1 THEN "rank_crews" ELSE "done")
    /\ UNCHANGED <<args, overall_goal, num_scripts, i, response, file_path, agents_data,
                   csv_file_paths, fs, log, prompts, ranked, exc>>

\* lines 278-281
GetAgentData ==
    /\ pc = "get_agent_data"
    /\ log' = log \o <<"Ollama()", "invoke">>
    /\ prompts' = Append(prompts, [kind |-> "get_agent_data", goal |-> overall_goal, data |-> <<>>])
    /\ \E r \in Responses, up \in BOOLEAN :
           IF ~up THEN response' = response /\ exc' = ExcModel /\ pc' = "except"
           ELSE IF r = <<>> THEN response' = r /\ exc' = ExcNoResponse /\ pc' = "except"
           ELSE response' = r /\ exc' = exc /\ pc' = "save_csv_output"
    /\ UNCHANGED <<args, overall_goal, num_scripts, i, file_path, agents_data,
                   csv_file_paths, fs, ranked>>

\* line 283
SaveCsvOutput ==
    /\ pc = "save_csv_output"
    /\ \E timestamp \in Timestamps, writable \in BOOLEAN :
           LET path == CsvPath(timestamp, overall_goal, i + 1)
           IN  IF writable
               THEN /\ fs' = Put(fs, path, response)
                    /\ file_path' = path
                    /\ log' = Append(log, "open:csv")
                    /\ exc' = exc
                    /\ pc' = "parse_csv_data"
               ELSE /\ UNCHANGED <<fs, file_path, log>>
                    /\ exc' = ExcOS
                    /\ pc' = "except"
    /\ UNCHANGED <<args, overall_goal, num_scripts, i, response, agents_data,
                   csv_file_paths, prompts, ranked>>

\* line 285
ParseCsvData ==
    /\ pc = "parse_csv_data"
    /\ LET r == parse_csv_data(response, file_path)
       IN  IF r.status = "ok"
           THEN agents_data' = r.records /\ exc' = exc /\ pc' = "check_agents"
           ELSE agents_data' = agents_data /\ exc' = r.status /\ pc' = "except"
    /\ UNCHANGED <<args, overall_goal, num_scripts, i, response, file_path,
                   csv_file_paths, fs, log, prompts, ranked>>

\* lines 286-287
CheckAgents ==
    /\ pc = "check_agents"
    /\ IF agents_data = <<>>
       THEN exc' = ExcNoData /\ pc' = "except"
       ELSE exc' = exc /\ pc' = "write_crewai_script"
    /\ UNCHANGED <<args, overall_goal, num_scripts, i, response, file_path, agents_data,
                   csv_file_paths, fs, log, prompts, ranked>>

\* lines 289-300
WriteCrewaiScript ==
    /\ pc = "write_crewai_script"
    /\ \E timestamp \in Timestamps, writable \in BOOLEAN :
           LET path == ScriptPath(timestamp, overall_goal, i + 1)
               w == write_crewai_script(agents_data, CrewTasks(agents_data))
           IN  IF ~writable
               THEN /\ UNCHANGED <<fs, log, csv_file_paths>>
                    /\ exc' = ExcOS
                    /\ pc' = "except"
               ELSE /\ fs' = Put(fs, path, w)
                    /\ log' = Append(log, "open:script")
                    /\ IF w.status = "ok"
                       THEN /\ csv_file_paths' = Append(csv_file_paths, file_path)
                            /\ exc' = exc
                            /\ pc' = "auto_run"
                       ELSE /\ csv_file_paths' = csv_file_paths
                            /\ exc' = w.status
                            /\ pc' = "except"
    /\ UNCHANGED <<args, overall_goal, num_scripts, i, response, file_path, agents_data,
                   prompts, ranked>>

\* lines 302-304 and the end of the loop body
AutoRun ==
    /\ pc = "auto_run"
    /\ log' = (IF args.auto_run THEN Append(log, "os.system") ELSE log)
    /\ i' = i + 1
    /\ pc' = "loop"
    /\ UNCHANGED <<args, overall_goal, num_scripts, response, file_path, agents_data,
                   csv_file_paths, fs, prompts, ranked, exc>>

\* line 307
RankAfterLoop ==
    /\ pc = "rank_crews"
    /\ RankCrews(csv_file_paths, overall_goal, "write_ranking")
    /\ UNCHANGED <<args, overall_goal, num_scripts, i, response, file_path, agents_data,
                   csv_file_paths, fs>>

\* lines 309-322
WriteRanking ==
    /\ pc = "write_ranking"
    /\ \E timestamp \in Timestamps, writable \in BOOLEAN :
           LET path == RankingPath(timestamp, overall_goal)
           IN  IF writable
               THEN /\ fs' = Put(fs, path, << <<Str("CSV File"), Str("Ranking"), Str("Critique")>>,
                                              <<ranked[1].paths, ranked[1].reply, ranked[1].reply>> >>)
                    /\ log' = Append(log, "open:ranking")
                    /\ exc' = exc
                    /\ pc' = "final_invoke"
               ELSE /\ UNCHANGED <<fs, log>>
                    /\ exc' = ExcOS
                    /\ pc' = "except"
    /\ UNCHANGED <<args, overall_goal, num_scripts, i, response, file_path, agents_data,
                   csv_file_paths, prompts, ranked>>

\* lines 325-326
FinalInvoke ==
    /\ pc = "final_invoke"
    /\ log' = log \o <<"Ollama()", "invoke">>
    /\ prompts' = Append(prompts, [kind |-> "overall_summary", goal |-> overall_goal,
                                   data |-> ranked[1]])
    /\ \E up \in BOOLEAN :
           IF up THEN exc' = exc /\ pc' = "done" ELSE exc' = ExcModel /\ pc' = "except"
    /\ UNCHANGED <<args, overall_goal, num_scripts, i, response, file_path, agents_data,
                   csv_file_paths, fs, ranked>>

\* the handler inside the loop: the next iteration is started
Except_NextIteration ==
    /\ pc = "except"
    /\ log' = Append(log, "print:error")
    /\ i' = i + 1
    /\ pc' = (IF args.ranking THEN "done" ELSE "loop")
    /\ UNCHANGED <<args, overall_goal, num_scripts, response, file_path, agents_data,
                   csv_file_paths, fs, prompts, ranked, exc>>

\* lines 258-260 and 328-330
Except ==
    /\ pc = "except"
    /\ log' = Append(log, "print:error")
    /\ pc' = "done"
    /\ UNCHANGED <<args, overall_goal, num_scripts, i, response, file_path, agents_data,
                   csv_file_paths, fs, prompts, ranked, exc>>

Init ==
    /\ pc = "check_latest_version"
    /\ args \in Args
    /\ overall_goal = <<>>
    /\ num_scripts = 0
    /\ i = 0
    /\ response = <<>>
    /\ file_path = <<>>
    /\ agents_data = <<>>
    /\ csv_file_paths = <<>>
    /\ fs = EmptyDict
    /\ log = <<>>
    /\ prompts = <<>>
    /\ ranked = <<>>
    /\ exc = NoExc

Next ==
    \/ CheckLatestVersion
    \/ CheckFlags
    \/ RankingDiscover
    \/ RankOnly
    \/ GoalAndCount
    \/ LoopHead
    \/ GetAgentData
    \/ SaveCsvOutput
    \/ ParseCsvData
    \/ CheckAgents
    \/ WriteCrewaiScript
    \/ AutoRun
    \/ RankAfterLoop
    \/ WriteRanking
    \/ FinalInvoke
    \/ Except

Spec == Init /\ [][Next]_vars

(***************************************************************************)
(* parse_csv_data on its own: the CSV texts it is applied to               *)
(***************************************************************************)
SeqUpTo(S, n) == UNION {[1..m -> S] : m \in 0..n}

SampleHeaders ==
    { HeaderLine,
      <<Quoted(Str("Role")), Str("notes"), Quoted(Str("goal"))>>,
      <<Str("goal"), Str("backstory")>>,
      BlankLine }

SampleRoleFields ==
    { Str("R"), Quoted(Str("R")), <<>>, Quoted(<<>>),
      Quoted(<<DQ, DQ>>), Quoted(<<DQ, DQ, "R", DQ, DQ>>) }

SampleTails ==
    { <<>>,
      <<Quoted(<<"g", "o">>)>>,
      <<Quoted(<<"g", "o">>), Str("b"), Quoted(<<DQ, DQ, "t">>), True>>,
      <<Quoted(<<"g", "o">>), Str("b"), Str("c"), Str("t"), True>> }

SampleRows == {<<r>> \o t : r \in SampleRoleFields, t \in SampleTails}

CsvTexts ==
    {<<>>} \cup {<<h>> \o rows : h \in SampleHeaders, rows \in SeqUpTo(SampleRows, MaxRows)}

IdleArgs ==
    [overall_goal |-> Some(Str("g")), auto_run |-> FALSE,
     multiple |-> [some |-> FALSE, v |-> 0], ranking |-> FALSE]

InitParse ==
    /\ pc = "parse_csv_data"
    /\ response \in CsvTexts
    /\ file_path \in {CsvPath(t, Str("g"), 1) : t \in Timestamps}
    /\ args = IdleArgs
    /\ overall_goal = Str("g")
    /\ num_scripts = 1
    /\ i = 0
    /\ agents_data = <<>>
    /\ csv_file_paths = <<>>
    /\ fs = EmptyDict
    /\ log = <<>>
    /\ prompts = <<>>
    /\ ranked = <<>>
    /\ exc = NoExc

NextParse == ParseCsvData

SpecParse == InitParse /\ [][NextParse]_vars

(***************************************************************************)
(* write_crewai_script on its own: the records it is applied to            *)
(***************************************************************************)
Record(role, goal, backstory, task, delegation) ==
    [k \in {"filename", "role", "goal", "backstory", "assigned_task", "allow_delegation"} |->
        CASE k = "filename" -> CsvPath("20240101-000000", Str("g"), 1)
          [] k = "role" -> role
          [] k = "goal" -> goal
          [] k = "backstory" -> backstory
          [] k = "assigned_task" -> task
          [] k = "allow_delegation" -> delegation]

Without(d, k) == [x \in (DOMAIN d) \ {k} |-> d[x]]

SampleRoles == {Str("R"), <<"A", " ", "B">>, <<"A", "-", "B">>, <<"v", ".", "2">>, <<"A", "_", "B">>}

\* records as parse_csv_data builds them; a short row leaves trailing fields out
SampleAgents ==
    {Record(r, Str("g"), Str("b"), Str("t"), True) : r \in SampleRoles}
    \cup {Without(Record(Str("R"), Str("g"), Str("b"), Str("t"), True), "allow_delegation"),
          Without(Without(Record(<<"A", " ", "B">>, Str("g"), Str("b"), Str("t"), True),
                          "allow_delegation"), "assigned_task")}

QuoteChars == {"a", " ", DQ, SQ, BS}

\* field values as parse_csv_data leaves them: no double quote at either end
Texts == {x \in SeqUpTo(QuoteChars, MaxTextLen) : Strip(x, {DQ}) = x}

QuotedAgents ==
    {Record(t, t, t, t, False) : t \in Texts \ {<<>>}}
    \cup {Record(Str("R"), u, u, u, False) : u \in Texts}

InitEmit ==
    /\ pc = "write_crewai_script"
    /\ agents_data \in (SeqUpTo(SampleAgents, MaxAgents) \ {<<>>}) \cup {<<a>> : a \in QuotedAgents}
    /\ file_path = CsvPath("20240101-000000", Str("g"), 1)
    /\ response = <<>>
    /\ args = IdleArgs
    /\ overall_goal = Str("g")
    /\ num_scripts = 1
    /\ i = 0
    /\ csv_file_paths = <<>>
    /\ fs = EmptyDict
    /\ log = <<>>
    /\ prompts = <<>>
    /\ ranked = <<>>
    /\ exc = NoExc

NextEmit == WriteCrewaiScript

SpecEmit == InitEmit /\ [][NextEmit]_vars

(***************************************************************************)
(* Properties of main                                                      *)
(***************************************************************************)
ModelEvents == {"Ollama()", "invoke"}
FileEvents == {"open:csv", "open:script", "open:ranking"}

Count(seq, S) == Cardinality({k \in 1..Len(seq) : seq[k] \in S})

\* the log without what is printed or asked of the user
Calls == SelectSeq(log, LAMBDA e : e \in ModelEvents \cup FileEvents \cup {"os.system"})

BeforeFlagCheck == {"check_latest_version", "check_flags"}

\* C1: whenever --multiple N (any integer N) and --auto_run are both passed, main
\* fails with the configuration error, and does so before any model call and
\* before any CSV, script or ranking file is created.
C1_FlagsTogetherFailFast ==
    (args.multiple.some /\ args.auto_run) =>
        /\ pc \in BeforeFlagCheck \cup {"raised"}
        /\ pc = "raised" => exc = ExcConfig
        /\ Count(log, ModelEvents \cup FileEvents) = 0

\* what line 250 is to keep, stated on the file name
MatchesGoal(file, goal) ==
    /\ Len(file) >= 2
    /\ file[1] = "crewai-autocrew-"
    /\ file[Len(file)] = ".csv"
    /\ \E a, b \in 0..Len(file) : a <= b /\ SubSeq(file, a + 1, b) = goal

\* C2: in ranking-only mode, when no file of the working directory matches the
\* discovery filter for the goal, main reports that no CSV files were found and
\* returns with no model call made and no file written; rank_crews is reached
\* only when at least one file matched, and then with exactly the matching files.
C2_RankingNeedsAMatch ==
    (args.ranking /\ pc \in {"rank_only", "except", "done"}) =>
        LET matching == {f \in DOMAIN fs : MatchesGoal(f, overall_goal)}
        IN  IF matching = {}
            THEN /\ pc = "done"
                 /\ log[Len(log)] = "print:no_csv"
                 /\ Count(log, ModelEvents \cup FileEvents) = 0
                 /\ prompts = <<>>
            ELSE /\ Range(csv_file_paths) = matching
                 /\ "print:no_csv" \notin Range(log)
                 /\ pc = "rank_only" => prompts = <<>>

\* C2 reached: ranking-only mode ended on "no CSV files found" in a directory
\* that holds CSV files, none of them for the goal
C2_Witness ==
    /\ args.ranking
    /\ pc = "done"
    /\ log[Len(log)] = "print:no_csv"
    /\ ExistingOther \in DOMAIN fs
    /\ ExistingCsv1 \in DOMAIN fs
    /\ overall_goal = <<"Ranking", " ", "g">>

RECURSIVE Times(_, _)
Times(n, seq) == IF n <= 0 THEN <<>> ELSE seq \o Times(n - 1, seq)

ScriptWriteFailed ==
    /\ pc \in {"except", "done"}
    /\ exc = ExcOS
    /\ Calls # <<>>
    /\ Calls[Len(Calls)] = "open:csv"

Generations == Cardinality({k \in 1..Len(prompts) : prompts[k].kind = "get_agent_data"})

\* C8 as stated: after an I/O error while writing the script of iteration i, the
\* later iterations of the same invocation are still carried out.
C8_LaterIterationsCarriedOut ==
    (ScriptWriteFailed /\ pc = "done") => Generations = num_scripts

\* C8, amended: an I/O error while writing the script of an iteration skips the
\* rest of that iteration, every later iteration and the ranking step; main
\* prints the error and returns.
C8_ScriptWriteErrorEndsRun ==
    ScriptWriteFailed =>
        /\ Generations = i + 1
        /\ Count(log, {"open:script"}) = i
        /\ Len(csv_file_paths) = i
        /\ \A k \in 1..Len(prompts) : prompts[k].kind = "get_agent_data"
        /\ pc = "done" => log[Len(log)] = "print:error"

\* C8 reached: the script write failed with iterations still to come, and main
\* has ended
C8_Witness ==
    /\ ScriptWriteFailed
    /\ pc = "done"
    /\ num_scripts > i + 1
    /\ fs # EmptyDict

\* C9: the text rank_crews embeds in its prompt is one header line followed only
\* by the data rows of the files not skipped, each with its file's name as a new
\* first field; no file's own header row is a row of it.
C9_ConcatenationHasDataRowsOnly ==
    ranked # <<>> =>
        LET c == ranked[1].concatenated
            kept == SelectSeq(ranked[1].paths, LAMBDA q : ~Skipped(q))
        IN  /\ c[1] = RankingHeader
            /\ \A r \in 2..Len(c) : \E q \in Range(kept) :
                   \E d \in 2..Len(fs[q]) :
                       /\ fs[q][d] # BlankLine
                       /\ c[r] = <<Basename(q)>> \o fs[q][d]
            /\ \A r \in 2..Len(c), q \in Range(kept) :
                   fs[q] # <<>> => c[r] # <<Basename(q)>> \o fs[q][1]

\* C10 as stated: the configuration error is reported before any external call
\* of the invocation, the version request included.
C10_ConfigErrorBeforeAnyCall == pc = "raised" => log = <<>>

\* C10, amended: when the configuration error is raised, no model call has been
\* made, no file written and no script run; the one external call made before it
\* is the version request of the start-up.
C10_ConfigErrorBeforeModelAndFiles ==
    pc = "raised" =>
        /\ exc = ExcConfig
        /\ Calls = <<>>
        /\ Count(log, {"requests.get"}) = 1
        /\ log[1] = "requests.get"

\* C10 reached: the configuration error was raised for the largest count
C10_Witness == pc = "raised" /\ args.multiple.v = MaxMultiple /\ ~args.ranking

(***************************************************************************)
(* Properties of parse_csv_data, stated on the rows of the CSV text        *)
(***************************************************************************)
Parsed == pc \in {"check_agents", "except"}

\* the data rows of the text, as the CSV reader yields them
DataRows == IF response = <<>> THEN <<>> ELSE Tail(CsvReader(response))

HeaderRow == IF response = <<>> THEN <<>> ELSE CsvReader(response)[1]

IsCanonicalHeader ==
    HeaderRow = <<Str("role"), Str("goal"), Str("backstory"), Str("assigned_task"),
                  Str("allow_delegation")>>

CanonicalColumns == <<"role", "goal", "backstory", "assigned_task", "allow_delegation">>

\* v is raw without the double quotes at its two ends
IsStripOf(v, raw) ==
    \E a, b \in 0..Len(raw) :
        /\ a + b <= Len(raw)
        /\ v = SubSeq(raw, a + 1, Len(raw) - b)
        /\ \A k \in 1..a : raw[k] = DQ
        /\ \A k \in (Len(raw) - b + 1)..Len(raw) : raw[k] = DQ
        /\ v # <<>> => (v[1] # DQ /\ v[Len(v)] # DQ)

\* C3 as stated: with the canonical header and data rows (at least one) that all
\* have a non-empty role, parse_csv_data returns one record per data row, in
\* order, each with the row's field values under the column names plus the
\* provenance filename.
C3_OneRecordPerRow ==
    (/\ Parsed
     /\ IsCanonicalHeader
     /\ DataRows # <<>>
     /\ \A k \in 1..Len(DataRows) : DataRows[k] # <<>> /\ DataRows[k][1] # <<>>) =>
        /\ pc = "check_agents"
        /\ Len(agents_data) = Len(DataRows)
        /\ \A k \in 1..Len(DataRows) :
               /\ agents_data[k]["filename"] = file_path
               /\ \A c \in 1..Len(CanonicalColumns) :
                      c <= Len(DataRows[k]) =>
                          /\ CanonicalColumns[c] \in DOMAIN agents_data[k]
                          /\ agents_data[k][CanonicalColumns[c]] = DataRows[k][c]

\* C3, amended: with the canonical header and data rows (at least one) that each
\* have at most five fields and a role with a character other than the double
\* quote, parse_csv_data returns one record per data row, in order, each with the
\* row's field values, less the double quotes at their two ends, under the column
\* names of the fields the row has, plus the provenance filename.
C3_OneRecordPerWellFormedRow ==
    (/\ Parsed
     /\ IsCanonicalHeader
     /\ DataRows # <<>>
     /\ \A k \in 1..Len(DataRows) :
            /\ DataRows[k] # <<>>
            /\ Len(DataRows[k]) <= Len(CanonicalColumns)
            /\ \E j \in 1..Len(DataRows[k][1]) : DataRows[k][1][j] # DQ) =>
        /\ pc = "check_agents"
        /\ exc = NoExc
        /\ Len(agents_data) = Len(DataRows)
        /\ \A k \in 1..Len(DataRows) :
               /\ DOMAIN agents_data[k] =
                      {"filename"} \cup {CanonicalColumns[c] : c \in 1..Len(DataRows[k])}
               /\ agents_data[k]["filename"] = file_path
               /\ \A c \in 1..Len(DataRows[k]) :
                      IsStripOf(agents_data[k][CanonicalColumns[c]], DataRows[k][c])

\* C3 reached: two rows parsed, a full one whose role keeps a quoted quote pair
\* and a short one
C3_Witness ==
    /\ pc = "check_agents"
    /\ IsCanonicalHeader
    /\ Len(agents_data) = 2
    /\ Len(DataRows[1]) = 5
    /\ Len(DataRows[2]) = 2
    /\ DataRows[1][1] = <<DQ, "R", DQ>>
    /\ agents_data[1]["role"] = Str("R")

\* the columns of the header row that hold the role
RoleColumns == {c \in 1..Len(HeaderRow) : Lower(HeaderRow[c]) = Str("role")}

\* the row has no role value, or an empty one
NoRole(row) == \A c \in RoleColumns : c > Len(row) \/ row[c] = <<>>

\* the row parses: no more fields than the header, and a role that is not empty
\* once the double quotes at its ends are gone
ValidRow(row) ==
    /\ Len(row) <= Len(HeaderRow)
    /\ \E c \in RoleColumns : c <= Len(row) /\ \E j \in 1..Len(row[c]) : row[c][j] # DQ

\* a data row without a role, all rows before it valid
FirstNoRole(k) ==
    /\ k \in 1..Len(DataRows)
    /\ NoRole(DataRows[k])
    /\ \A j \in 1..(k - 1) : ValidRow(DataRows[j])

\* C4 as stated: parse_csv_data fails with the validation error, and returns no
\* records, whenever a data row has an empty or absent role, whatever other
\* fields the row has and however many valid rows precede it.
C4_NoRoleIsValidationError ==
    (Parsed /\ \E k \in 1..Len(DataRows) : FirstNoRole(k)) =>
        /\ pc = "except"
        /\ exc = ExcRole
        /\ agents_data = <<>>

\* C4, amended: parse_csv_data fails, and returns no records, whenever a data
\* row has an empty or absent role, however many valid rows precede it: with the
\* validation error when that row has no more fields than the header row, with
\* an IndexError when it has more.
C4_NoRoleFails ==
    \A k \in 1..Len(DataRows) :
        (Parsed /\ FirstNoRole(k)) =>
            /\ pc = "except"
            /\ agents_data = <<>>
            /\ exc = (IF Len(DataRows[k]) <= Len(HeaderRow) THEN ExcRole ELSE ExcIndex)

\* C4 reached: a valid row, then a five-field row with an empty role
C4_Witness ==
    /\ pc = "except"
    /\ exc = ExcRole
    /\ IsCanonicalHeader
    /\ FirstNoRole(2)
    /\ Len(DataRows[2]) = 5

(***************************************************************************)
(* Properties of the emitted script                                        *)
(***************************************************************************)
\* the script was written to its end
ScriptWritten == pc = "auto_run" /\ \E p \in DOMAIN fs : EndsWith(p, Str(".py"))

Script == fs[CHOOSE p \in DOMAIN fs : EndsWith(p, Str(".py"))]

\* the role with each space, hyphen and period turned into an underscore
DerivedName(role) ==
    [j \in 1..Len(role) |-> IF role[j] \in {" ", "-", "."} THEN "_" ELSE role[j]]

RECURSIVE IsEscaped(_, _, _)
\* lit is src with a backslash put before each of its characters in quotes
IsEscaped(lit, src, quotes) ==
    IF src = <<>> THEN lit = <<>>
    ELSE IF Head(src) \in quotes
    THEN /\ Len(lit) >= 2
         /\ lit[1] = BS
         /\ lit[2] = Head(src)
         /\ IsEscaped(SubSeq(lit, 3, Len(lit)), Tail(src), quotes)
    ELSE /\ lit # <<>>
         /\ Head(lit) = Head(src)
         /\ IsEscaped(Tail(lit), Tail(src), quotes)

\* the assigned task as define_task takes it: without the whitespace around it
Trimmed(s) ==
    LET inside == {k \in 1..Len(s) : s[k] \notin {" ", "\n"}}
    IN  IF inside = {} THEN <<>>
        ELSE SubSeq(s, CHOOSE a \in inside : \A b \in inside : a <= b,
                       CHOOSE a \in inside : \A b \in inside : a >= b)

\* C7 as stated: every double quote and every single quote of a record's
\* backstory, role and assigned_task is emitted with a backslash before it, and
\* the goal is emitted as it is.
C7_AllQuotesEscaped ==
    ScriptWritten =>
        \A k \in 1..Len(agents_data) :
            /\ IsEscaped(Script.agents[k].role, agents_data[k]["role"], {DQ, SQ})
            /\ IsEscaped(Script.agents[k].backstory, agents_data[k]["backstory"], {DQ, SQ})
            /\ IsEscaped(Script.tasks[k].description,
                         Trimmed(agents_data[k]["assigned_task"]), {DQ, SQ})
            /\ Script.agents[k].goal = agents_data[k]["goal"]

\* C7, amended: every double quote of a record's backstory, role and
\* assigned_task, and every single quote of its backstory and role, is emitted
\* with a backslash before it; the single quotes of assigned_task are emitted
\* with none, and the goal is emitted as it is.
C7_QuotesEscapedButTaskSingleQuotes ==
    ScriptWritten =>
        \A k \in 1..Len(agents_data) :
            /\ IsEscaped(Script.agents[k].role, agents_data[k]["role"], {DQ, SQ})
            /\ IsEscaped(Script.agents[k].backstory, agents_data[k]["backstory"], {DQ, SQ})
            /\ IsEscaped(Script.tasks[k].description,
                         Trimmed(agents_data[k]["assigned_task"]), {DQ})
            /\ Script.agents[k].goal = agents_data[k]["goal"]

\* C7 reached: a script for a record whose fields hold both kinds of quote
C7_Witness ==
    /\ ScriptWritten
    /\ agents_data[1]["assigned_task"] = <<SQ, DQ, "a">>
    /\ agents_data[1]["backstory"] = <<SQ, DQ, "a">>
    /\ Script.tasks[1].description = <<SQ, BS, DQ, "a">>
    /\ Script.agents[1].backstory = <<BS, SQ, BS, DQ, "a">>
    /\ Script.agents[1].goal = <<SQ, DQ, "a">>

====
